---- MODULE Spec2Model ----
(***************************************************************************)
(* A model of gridcells.analysis.bumps (src/gridcells/analysis/bumps.py):  *)
(* the result-list containers MLFitList and MLGaussianFitList, the         *)
(* single-snapshot fitters fit_maximum_lh and fit_gaussian_tt, and the     *)
(* time-series orchestrator SingleBumpPopulation._perform_fit.             *)
(*                                                                         *)
(* Python lists are objects on a heap: a result list holds REFERENCES to   *)
(* its backing arrays, and the constructors store the caller's argument    *)
(* objects without copying them.                                           *)
(***************************************************************************)
EXTENDS Integers, Sequences, FiniteSets, TLC

VARIABLES
    lists,      \* lists[i]: the i-th result-list object (class, field references)
    heap,       \* heap[i][k]: the Python list object created for field k of list i
    log,        \* log[i]: history of the (record, time) pairs appended to list i
    ret,        \* outcome of the last container call
    sig,        \* the samples handed to fit_maximum_lh
    fit,        \* outcome of the fit_maximum_lh call
    gsig,       \* the 2D snapshot handed to fit_gaussian_tt / fit_gaussian_bump_tt
    gfit,       \* outcome of that call
    orch,       \* the bump_position / uniform_fit call: position, arguments, locals
    recs        \* the record objects the fitter has returned to that call

listVars == <<lists, heap, log, ret>>

mlhVars == <<sig, fit>>

gaussVars == <<gsig, gfit>>

orchVars == <<orch, recs>>

vars == <<lists, heap, log, ret, sig, fit, gsig, gfit, orch, recs>>

----------------------------------------------------------------------------
(* Bounds of the model *)

\* number of successful _append_data calls in one behaviour
MaxAppends == 3

\* longest component array a caller passes to a constructor
MaxInitLen == 1

\* result-list objects alive in one behaviour (the lists of a program are
\* independent of each other unless a caller shares an array between them)
ListIds == {1}

\* samples in one fit_maximum_lh input, and the largest sample value
MaxSamples == 5

MaxSample == 5

\* windows of one sliding firing-rate sequence
MaxWindows == 2

\* rows and columns of a snapshot
MaxDim == 2

\* firing rates in a snapshot
Rates == {0, 1}

\* what the least-squares solver may hand back: amplitude (signed), centre
\* coordinates (inside and outside the sheet), width, the MINPACK flag ier
\* (1..4: solution found; 5..8: not found) and the size of the residuals
SolverA == {0 - 2, 1}

SolverMu == {0 - 1, 0, 3}

SolverSigma == {1}

SolverIer == {1, 4, 5, 8}

SolverResidual == {0, 1}

\* the (record, timestamp) pairs handed to _append_data: representative
\* single-snapshot records, the k-th record coming with the k-th timestamp
Stamped == {<<1, 1>>, <<2, 2>>}

----------------------------------------------------------------------------
(* Classes *)

\* class statements of the module: each class with its direct base
Base(cls) ==
    CASE cls = "SymmetricGaussianParams" -> "FittingParams"
      [] cls = "MLFit"                   -> "FittingParams"
      [] cls = "MLFitList"               -> "MLFit"
      [] cls = "MLGaussianFit"           -> "SymmetricGaussianParams"
      [] cls = "MLGaussianFitList"       -> "MLGaussianFit"
      [] OTHER                           -> "object"

RECURSIVE IsInstance(_, _)
\* isinstance(d, target), d an instance of class cls
IsInstance(cls, target) ==
    IF cls = target THEN TRUE
    ELSE IF cls = "object" THEN FALSE
    ELSE IsInstance(Base(cls), target)

ListClasses == {"MLFitList", "MLGaussianFitList"}

\* the attributes of a result list, in the order __init__ receives them and
\* _append_data appends to them
MLFitListFields == <<"mu", "sigma2", "ln_lh", "err2", "times">>

MLGaussianFitListFields ==
    <<"A", "mu_x", "mu_y", "sigma", "err2", "ln_lh", "lh_precision", "times">>

Fields(cls) ==
    IF cls = "MLFitList" THEN MLFitListFields
    ELSE IF cls = "MLGaussianFitList" THEN MLGaussianFitListFields
    ELSE <<>>

\* the record class a list accepts
RecordClass(cls) == IF cls = "MLFitList" THEN "MLFit" ELSE "MLGaussianFit"

\* the attributes a record of class cls carries (MLFit.__init__,
\* SymmetricGaussianParams.__init__ + MLGaussianFit.__init__)
Attrs(cls) ==
    IF IsInstance(cls, "MLFit") THEN <<"mu", "sigma2", "ln_lh", "err2">>
    ELSE IF IsInstance(cls, "MLGaussianFit")
         THEN <<"A", "mu_x", "mu_y", "sigma", "err2", "ln_lh", "lh_precision">>
    ELSE <<>>

FieldIndex(fs, name) == CHOOSE k \in 1..Len(fs) : fs[k] = name

RECURSIVE SeqsUpTo(_, _)
\* the sequences over S of length at most n
SeqsUpTo(S, n) ==
    IF n = 0 THEN {<<>>}
    ELSE LET shorter == SeqsUpTo(S, n - 1)
         IN  shorter \cup {Append(q, x) : q \in {p \in shorter : Len(p) = n - 1}, x \in S}

----------------------------------------------------------------------------
(* Values and the heap *)

\* An element of a Python list, or an attribute of a record, is a triple:
\*   <<"val", r, k>>   attribute k of the representative record r
\*   <<"time", t, 0>>  the timestamp t
\*   <<"init", 0, 0>>  an element a caller put into an array before passing it
\*   <<"ref", i, k>>   a reference to the list object heap[i][k]
InitVal == <<"init", 0, 0>>

TimeVal(t) == <<"time", t, 0>>

Deref(h, name) == h[name[1]][name[2]]

\* list.append(v) on the list object called name
Push(h, name, v) == [h EXCEPT ![name[1]][name[2]] = Append(@, v)]

\* seq[key] of a Python list: negative keys count from the end
InRange(seq, key) == key < Len(seq) /\ key >= 0 - Len(seq)

Index(seq, key) == IF key >= 0 THEN seq[key + 1] ELSE seq[Len(seq) + key + 1]

\* d.name for the value d handed to _append_data: d is [cls, id]. A
\* single-snapshot record r carries its own values; a result list (which
\* inherits from its record class) carries its list objects.
Attr(L, d, name) ==
    IF d.cls \in {"MLFitList", "MLGaussianFitList"}
    THEN LET a == L[d.id].ref[FieldIndex(Fields(d.cls), name)]
         IN  <<"ref", a[1], a[2]>>
    ELSE <<"val", d.id, FieldIndex(Attrs(d.cls), name)>>

NoList == [cls |-> "none", ref |-> <<>>, supplied |-> {}]

\* The outcome of a call: the exception raised ("" for none) or the value
\* returned; arg echoes what the caller passed.
NoRet == [op |-> "none", lst |-> 0, exc |-> "", val |-> <<>>, arg |-> <<>>]

Raise(op, i, exc) == [op |-> op, lst |-> i, exc |-> exc, val |-> <<>>, arg |-> <<>>]

Return(op, i, v) == [op |-> op, lst |-> i, exc |-> "", val |-> v, arg |-> <<>>]

Called(r, a) == [r EXCEPT !.arg = a]

----------------------------------------------------------------------------
(* Constructor arguments *)

ArgNone == [kind |-> "none", len |-> 0, to |-> 0]

\* a list object of n elements the caller created for this call
ArgFresh(n) == [kind |-> "fresh", len |-> n, to |-> 0]

\* the very object the caller also passes for the first parameter
ArgAlias == [kind |-> "alias", len |-> 0, to |-> 1]

\* The argument tuples a caller passes: no arguments; one fresh array of
\* length n per parameter; or that with a single parameter f differing:
\* omitted, of another length, or (the second parameter) the same object as
\* the first.
ArgTuples(cls) ==
    LET m == Len(Fields(cls))
        same(a) == [k \in 1..m |-> a]
        odd(n, f, a) == [k \in 1..m |-> IF k = f THEN a ELSE ArgFresh(n)]
    IN  {same(ArgNone)}
        \cup {same(ArgFresh(n)) : n \in 0..MaxInitLen}
        \cup {odd(n, f, ArgNone) : n \in 1..MaxInitLen, f \in 1..m}
        \cup {odd(x[1], f, ArgFresh(x[2])) :
                x \in {y \in (0..MaxInitLen) \X (0..MaxInitLen) : y[1] # y[2]},
                f \in 1..m}
        \cup {odd(n, 2, ArgAlias) : n \in 0..MaxInitLen}

\* the list objects bound to the attributes of list i by __init__: a None
\* argument is replaced by a new empty list, any other argument is stored as
\* passed (no copy)
NewCells(args) ==
    [k \in 1..Len(args) |->
        IF args[k].kind = "fresh" THEN [j \in 1..args[k].len |-> InitVal]
        ELSE <<>>]

NewRefs(i, args) ==
    [k \in 1..Len(args) |->
        IF args[k].kind = "alias" THEN <<i, args[k].to>> ELSE <<i, k>>]

\* the length of the k-th argument as the caller sees it (None: no array)
ArgLen(args, k) ==
    IF args[k].kind = "alias" THEN args[args[k].to].len ELSE args[k].len

\* the shortest and the longest argument of a call
ArgSpan(args) ==
    LET lens == {ArgLen(args, k) : k \in 1..Len(args)}
    IN  << CHOOSE n \in lens : \A m \in lens : n <= m,
           CHOOSE n \in lens : \A m \in lens : n >= m >>

----------------------------------------------------------------------------
(* MLFitList *)

\* MLFitList._consistent, on the attribute references r of the object
MLFitList_consistent(r, h) ==
    /\ Len(Deref(h, r[1])) = Len(Deref(h, r[2]))
    /\ Len(Deref(h, r[1])) = Len(Deref(h, r[3]))
    /\ Len(Deref(h, r[1])) = Len(Deref(h, r[4]))
    /\ Len(Deref(h, r[1])) = Len(Deref(h, r[5]))

\* MLFitList.__init__: the outcome [exc, lists, heap] of building list i
MLFitList_init(L, h, i, args) ==
    LET r  == NewRefs(i, args)
        h1 == [h EXCEPT ![i] = NewCells(args)]
        obj == [cls |-> "MLFitList", ref |-> r,
                supplied |-> {k \in 1..Len(args) : args[k].kind # "none"}]
    IN  IF ~MLFitList_consistent(r, h1)
        THEN [exc |-> "ValueError", lists |-> L, heap |-> h]
        ELSE [exc |-> "", lists |-> [L EXCEPT ![i] = obj], heap |-> h1]

\* MLFitList.__getitem__: the whole err2 and times list objects are handed
\* out, not their element at key
MLFitList_getitem(L, h, i, key) ==
    LET r == L[i].ref
    IN  IF \E k \in 1..3 : ~InRange(Deref(h, r[k]), key)
        THEN Raise("getitem", i, "IndexError")
        ELSE Return("getitem", i,
                    << << Index(Deref(h, r[1]), key),
                          Index(Deref(h, r[2]), key),
                          Index(Deref(h, r[3]), key),
                          <<"ref", r[4][1], r[4][2]>> >>,
                       <<"ref", r[5][1], r[5][2]>> >>)

\* MLFitList.__len__: "len.self.mu" reads the attribute "self" of the
\* builtin len
MLFitList_len(L, h, i) == Raise("len", i, "AttributeError")

\* (mutant) the timestamp is appended before the type of d is looked at
MLFitList_append_data_late_check(L, h, i, d, t) ==
    LET r == L[i].ref
        h0 == Push(h, r[5], TimeVal(t))
    IN  IF ~IsInstance(d.cls, "MLFit")
        THEN [exc |-> "TypeError", heap |-> h0]
        ELSE LET h1 == Push(h, r[1], Attr(L, d, "mu"))
                 h2 == Push(h1, r[2], Attr(L, d, "sigma2"))
                 h3 == Push(h2, r[3], Attr(L, d, "ln_lh"))
                 h4 == Push(h3, r[4], Attr(L, d, "err2"))
                 h5 == Push(h4, r[5], TimeVal(t))
             IN  [exc |-> "", heap |-> h5]

\* MLFitList._append_data: the outcome [exc, heap]
MLFitList_append_data(L, h, i, d, t) ==
    LET r == L[i].ref
    IN  IF ~IsInstance(d.cls, "MLFit")
        THEN [exc |-> "TypeError", heap |-> h]
        ELSE LET h1 == Push(h, r[1], Attr(L, d, "mu"))
                 h2 == Push(h1, r[2], Attr(L, d, "sigma2"))
                 h3 == Push(h2, r[3], Attr(L, d, "ln_lh"))
                 h4 == Push(h3, r[4], Attr(L, d, "err2"))
                 h5 == Push(h4, r[5], TimeVal(t))
             IN  [exc |-> "", heap |-> h5]

----------------------------------------------------------------------------
(* MLGaussianFitList *)

MLGaussianFitList_consistent(r, h) ==
    /\ Len(Deref(h, r[1])) = Len(Deref(h, r[2]))
    /\ Len(Deref(h, r[1])) = Len(Deref(h, r[3]))
    /\ Len(Deref(h, r[1])) = Len(Deref(h, r[4]))
    /\ Len(Deref(h, r[1])) = Len(Deref(h, r[5]))
    /\ Len(Deref(h, r[1])) = Len(Deref(h, r[6]))
    /\ Len(Deref(h, r[1])) = Len(Deref(h, r[7]))
    /\ Len(Deref(h, r[1])) = Len(Deref(h, r[8]))

MLGaussianFitList_init(L, h, i, args) ==
    LET r  == NewRefs(i, args)
        h1 == [h EXCEPT ![i] = NewCells(args)]
        obj == [cls |-> "MLGaussianFitList", ref |-> r,
                supplied |-> {k \in 1..Len(args) : args[k].kind # "none"}]
    IN  IF ~MLGaussianFitList_consistent(r, h1)
        THEN [exc |-> "ValueError", lists |-> L, heap |-> h]
        ELSE [exc |-> "", lists |-> [L EXCEPT ![i] = obj], heap |-> h1]

\* MLGaussianFitList._append_data
MLGaussianFitList_append_data(L, h, i, d, t) ==
    LET r == L[i].ref
    IN  IF ~IsInstance(d.cls, "MLGaussianFit")
        THEN [exc |-> "TypeError", heap |-> h]
        ELSE LET h1 == Push(h, r[1], Attr(L, d, "A"))
                 h2 == Push(h1, r[2], Attr(L, d, "mu_x"))
                 h3 == Push(h2, r[3], Attr(L, d, "mu_y"))
                 h4 == Push(h3, r[4], Attr(L, d, "sigma"))
                 h5 == Push(h4, r[5], Attr(L, d, "err2"))
                 h6 == Push(h5, r[6], Attr(L, d, "ln_lh"))
                 h7 == Push(h6, r[7], Attr(L, d, "lh_precision"))
                 h8 == Push(h7, r[8], TimeVal(t))
             IN  [exc |-> "", heap |-> h8]

\* MLGaussianFitList.__getitem__: the arguments A[key] .. err2[key] are
\* evaluated first; the object has no attribute _times, so the second
\* element of the pair is never built
MLGaussianFitList_getitem(L, h, i, key) ==
    LET r == L[i].ref
    IN  IF \E k \in 1..5 : ~InRange(Deref(h, r[k]), key)
        THEN Raise("getitem", i, "IndexError")
        ELSE Raise("getitem", i, "AttributeError")

\* MLGaussianFitList.__len__
MLGaussianFitList_len(L, h, i) == Return("len", i, <<Len(Deref(h, L[i].ref[1]))>>)

----------------------------------------------------------------------------
(* Real arithmetic: a value is a fraction <<n, d>> in lowest terms with    *)
(* d > 0; <<0, 0>> is NaN, <<1, 0>> is +infinity, <<-1, 0>> is -infinity   *)
(* (the IEEE results numpy gives without raising).                         *)

\* Python evaluates the operands of a call once, before the call: each
\* operation below binds the values of its operands (a, b, v) first.

RECURSIVE Gcd(_, _)
Gcd(a, b) == IF b = 0 THEN a ELSE Gcd(b, a % b)

Abs(a) == IF a < 0 THEN 0 - a ELSE a

Sign(a) == IF a < 0 THEN 0 - 1 ELSE IF a > 0 THEN 1 ELSE 0

NaN == <<0, 0>>

Inf == <<1, 0>>

IsNaN(x) == x = NaN

IsFinite(x) == x[2] # 0

\* the fraction n / d, d any integer: x / 0 is +-infinity, 0 / 0 is NaN
Frac(n, d) ==
    CHOOSE r \in {IF b = 0 THEN <<Sign(a), 0>>
                  ELSE <<(Sign(b) * a) \div Gcd(Abs(a), Abs(b)),
                         Abs(b) \div Gcd(Abs(a), Abs(b))>> :
                    a \in {n}, b \in {d}} : TRUE

FromInt(n) == <<n, 1>>

RAdd(x, y) ==
    CHOOSE r \in {IF IsFinite(a) /\ IsFinite(b)
                  THEN Frac(a[1] * b[2] + b[1] * a[2], a[2] * b[2])
                  ELSE IF IsNaN(a) \/ IsNaN(b) THEN NaN
                  ELSE IF ~IsFinite(a) /\ ~IsFinite(b) /\ a # b THEN NaN
                  ELSE IF IsFinite(a) THEN b ELSE a :
                    a \in {x}, b \in {y}} : TRUE

RNeg(x) == CHOOSE r \in {<<0 - a[1], a[2]>> : a \in {x}} : TRUE

RSub(x, y) == RAdd(x, RNeg(y))

RMul(x, y) ==
    CHOOSE r \in {IF IsFinite(a) /\ IsFinite(b) THEN Frac(a[1] * b[1], a[2] * b[2])
                  ELSE IF IsNaN(a) \/ IsNaN(b) THEN NaN
                  ELSE IF a[1] = 0 \/ b[1] = 0 THEN NaN
                  ELSE <<Sign(a[1]) * Sign(b[1]), 0>> :
                    a \in {x}, b \in {y}} : TRUE

RDiv(x, y) ==
    CHOOSE r \in {IF IsFinite(a) /\ IsFinite(b) THEN Frac(a[1] * b[2], a[2] * b[1])
                  ELSE IF IsNaN(a) \/ IsNaN(b) THEN NaN
                  ELSE IF ~IsFinite(a) /\ ~IsFinite(b) THEN NaN
                  ELSE IF IsFinite(a) THEN FromInt(0)
                  ELSE <<Sign(a[1]) * (IF b[1] < 0 THEN 0 - 1 ELSE 1), 0>> :
                    a \in {x}, b \in {y}} : TRUE

RECURSIVE RSum(_)
\* np.sum of a sequence of values
RSum(xs) ==
    CHOOSE r \in {IF v = <<>> THEN FromInt(0) ELSE RAdd(v[1], RSum(Tail(v))) :
                    v \in {xs}} : TRUE

\* np.mean: the sum divided by the number of elements (NaN for none)
RMean(xs) == CHOOSE r \in {RDiv(RSum(v), FromInt(Len(v))) : v \in {xs}} : TRUE

\* (xs - m) ** 2, element by element
SqDev(xs, m) ==
    CHOOSE r \in {[k \in 1..Len(v) |-> RMul(RSub(v[k], c), RSub(v[k], c))] :
                    v \in {xs}, c \in {m}} : TRUE

\* (mutant) the unbiased estimator: divisor n - 1
RVar_unbiased(xs) ==
    CHOOSE r \in {RDiv(RSum(SqDev(v, RMean(v))), FromInt(Len(v) - 1)) :
                    v \in {xs}} : TRUE

\* np.var: the mean of the squared deviations from the mean (divisor n)
RVar(xs) == CHOOSE r \in {RMean(SqDev(v, RMean(v))) : v \in {xs}} : TRUE

\* The logarithm is not computed: a log-likelihood is kept as its kind
\* ("finite", "inf", "-inf", "nan") and, when finite, the terms it is made of:
\*   quad + coef * log(logarg) - half * log(2 pi) - aic
LnLh(kind, quad, coef, logarg, half, aic) ==
    [kind |-> kind, quad |-> quad, coef |-> coef, logarg |-> logarg,
     half |-> half, aic |-> aic]

LnLhOf(kind) == LnLh(kind, NaN, NaN, NaN, NaN, 0)

\* an ndarray of values, and a scalar: the two shapes an err2 attribute takes
Array(xs) == <<"array", xs>>

Scalar(x) == <<"scalar", <<x>>>>

\* the kind of np.log(x)
LogKind(x) ==
    IF IsNaN(x) \/ x[1] < 0 THEN "nan"
    ELSE IF x = Inf THEN "inf"
    ELSE IF x[1] = 0 THEN "-inf"
    ELSE "finite"

\* the kind of a value
KindOf(x) ==
    IF IsNaN(x) THEN "nan"
    ELSE IF IsFinite(x) THEN "finite"
    ELSE IF x = Inf THEN "inf" ELSE "-inf"

\* the kind of a sum, from the kinds of its two terms
AddKinds(j, k) ==
    IF j = "nan" \/ k = "nan" THEN "nan"
    ELSE IF j = "finite" THEN k
    ELSE IF k = "finite" \/ j = k THEN j
    ELSE "nan"

----------------------------------------------------------------------------
(* fit_maximum_lh *)

\* fit_maximum_lh(sig): the MLFit record <<mu, sigma2, ln_lh, err2>>, sig
\* the flattened samples as values
fit_maximum_lh(xs) ==
    LET mu == RMean(xs)
        sigma2 == RVar(xs)
        err2 == Array(SqDev(xs, mu))
        n == Len(xs)
        aic_correction == 2
        quad == RMul(RDiv(Frac(0 - 1, 2), sigma2), RSum(SqDev(xs, mu)))
        half == Frac(n, 2)
        kind == AddKinds(KindOf(quad), LogKind(sigma2))
        ln_lh == IF sigma2 = FromInt(0) THEN LnLhOf("inf")
                 ELSE IF kind = "finite"
                      THEN LnLh("finite", quad, RNeg(half), sigma2, half,
                                aic_correction)
                 ELSE LnLhOf(kind)
    IN  [mu |-> mu, sigma2 |-> sigma2, ln_lh |-> ln_lh, err2 |-> err2]

----------------------------------------------------------------------------
(* fit_gaussian_tt and fit_gaussian_bump_tt *)

\* sig.shape of a 2D array kept as its sequence of rows: <<rows, columns>>
Shape(a) == <<Len(a), IF a = <<>> THEN 0 ELSE Len(a[1])>>

RECURSIVE Ravel(_)
\* sig.ravel(): the rows one after the other
Ravel(a) == IF a = <<>> THEN <<>> ELSE a[1] \o Ravel(Tail(a))

\* float64 keeps 53 significant bits: a sum is rounded to the nearest
\* representable value.  The model keeps the multiples of 1 / Precision for
\* sums of magnitude 1 / Precision or more.
Precision == 16

\* the float nearest to the exact sum x (round half up)
RoundSum(x) ==
    CHOOSE r \in {IF IsFinite(a) /\ Abs(a[1]) * Precision >= a[2]
                  THEN Frac((2 * a[1] * Precision + a[2]) \div (2 * a[2]), Precision)
                  ELSE a : a \in {x}} : TRUE

\* a negative value far below the spacing of the floats near 1, such as
\* -1e-20
NegTiny == Frac(0 - 1, 64 * Precision)

\* fmod(x, m) of C for a positive whole m: the exact remainder with the sign
\* of x
FMod(x, m) ==
    CHOOSE r \in {Frac(Sign(a[1]) * (Abs(a[1]) % (a[2] * m)), a[2]) : a \in {x}} : TRUE

\* x % m of numpy for a positive whole m (npy_divmod): mod = fmod(x, m), and
\* "mod += m" when mod is not zero and negative; the sum is a float
RMod(x, m) ==
    CHOOSE r \in {IF ~IsFinite(a) THEN NaN
                  ELSE IF FMod(a, m)[1] < 0 THEN RoundSum(RAdd(FMod(a, m), FromInt(m)))
                  ELSE FMod(a, m) : a \in {x}} : TRUE

\* SymmetricGaussianParams(amplitude, mu_x, mu_y, sigma, err2)
SymmetricGaussianParams(amplitude, mu_x, mu_y, sigma, err2) ==
    [A |-> amplitude, mu_x |-> mu_x, mu_y |-> mu_y, sigma |-> sigma, err2 |-> err2]

None == <<"None", <<>>>>

\* the centre coordinates the solver may hand back: whole ones inside and
\* outside the sheet, and one just below zero
SolverCentre == {FromInt(c) : c \in SolverMu} \cup {NegTiny}

\* scipy.optimize.leastsq(gaussian_diff, x0) with its default arguments, m
\* the number of residuals: TypeError for fewer residuals than parameters
\* (or any error of the residual function); otherwise the pair (xest, ier),
\* returned also when ier reports that no solution was found.  diff is
\* gaussian_diff(xest), which depends on exp() and the torus distance and is
\* left open.
leastsq(m, x0) ==
    {[raises |-> TRUE, xest |-> x0, ier |-> 0, diff |-> <<>>]}
    \cup
    (IF Len(x0) > m THEN {}
     ELSE {[raises |-> FALSE,
            xest |-> <<FromInt(a), mx, my, FromInt(sg)>>,
            ier |-> ier,
            diff |-> [k \in 1..m |-> FromInt(e * k)]] :
              a \in SolverA, mx \in SolverCentre, my \in SolverCentre,
              sg \in SolverSigma,
              ier \in SolverIer, e \in SolverResidual})

\* fit_gaussian_tt(sig_f, i), out the solver's outcome: the MLGaussianFit
\* returned or the exception raised
fit_gaussian_tt(sig_f, i, out) ==
    LET dim == [x |-> Shape(sig_f)[2], y |-> Shape(sig_f)[1]]
        x0 == <<i.A, i.mu_x, i.mu_y, i.sigma>>
        xest == out.xest
        ierr == out.ier
        err2 == [k \in 1..Len(out.diff) |-> RMul(out.diff[k], out.diff[k])]
        mu_x == RMod(xest[2], dim.x)
        mu_y == RMod(xest[3], dim.y)
        n == dim.x * dim.y
        aic_correction == 5
        beta == RDiv(FromInt(1), RMean(err2))
        quad == RMul(RDiv(RNeg(beta), FromInt(2)), RSum(err2))
        half == Frac(n, 2)
        kind == AddKinds(KindOf(quad), LogKind(beta))
        ln_lh == IF kind = "finite"
                 THEN LnLh("finite", quad, half, beta, half, aic_correction)
                 ELSE LnLhOf(kind)
    IN  IF out.raises THEN Raise("fit_gaussian_tt", 0, "TypeError")
        ELSE Return("fit_gaussian_tt", 0,
                    [A |-> xest[1], mu_x |-> mu_x, mu_y |-> mu_y,
                     sigma |-> xest[4], err2 |-> Array(err2), ln_lh |-> ln_lh,
                     lh_precision |-> beta])

\* (mutant) the last index of the maximum
ArgMax_last(xs) ==
    CHOOSE k \in 0..(Len(xs) - 1) :
        /\ \A j \in 1..Len(xs) : xs[j] <= xs[k + 1]
        /\ \A j \in (k + 2)..Len(xs) : xs[j] < xs[k + 1]

\* np.argmax of the flattened array: the first index (from 0) of the maximum
ArgMax(xs) ==
    CHOOSE k \in 0..(Len(xs) - 1) :
        /\ \A j \in 1..Len(xs) : xs[j] <= xs[k + 1]
        /\ \A j \in 1..k : xs[j] < xs[k + 1]

\* the initial guess fit_gaussian_bump_tt hands to fit_gaussian_tt
BumpInit(sg) ==
    LET at == ArgMax(Ravel(sg))
        mu0_y == at \div Shape(sg)[2]
        mu0_x == at % Shape(sg)[2]
        a0 == sg[mu0_y + 1][mu0_x + 1]
        rows == Shape(sg)[1]
        cols == Shape(sg)[2]
        sigma0 == Frac(IF rows > cols THEN rows ELSE cols, 4)
    IN  SymmetricGaussianParams(FromInt(a0), FromInt(mu0_x), FromInt(mu0_y),
                                sigma0, None)

\* fit_gaussian_bump_tt(sig)
fit_gaussian_bump_tt(sg, out) == fit_gaussian_tt(sg, BumpInit(sg), out)

----------------------------------------------------------------------------
(* The container calls a client makes *)

\* no result list exists yet
NoLists ==
    /\ lists = [i \in ListIds |-> NoList]
    /\ heap = [i \in ListIds |-> <<>>]
    /\ log = [i \in ListIds |-> <<>>]
    /\ ret = NoRet

\* no fit_maximum_lh call is under way
NoFit == sig = <<>> /\ fit = NoRet

\* no fit_gaussian_tt call is under way
NoGauss == gsig = <<>> /\ gfit = NoRet

\* no bump_position / uniform_fit call is under way
NoCall ==
    /\ orch = [pc |-> "idle", method |-> "", full_err |-> TRUE, F |-> <<>>,
               Ft |-> <<>>, tIdx |-> 0, exc |-> "", result |-> 0,
               calls |-> <<>>, outs |-> <<>>, failed |-> <<>>]
    /\ recs = <<>>

Init == NoLists /\ NoFit /\ NoGauss /\ NoCall

Alive == {i \in ListIds : lists[i].cls # "none"}

Free == ListIds \ Alive

NumAppends == LET RECURSIVE Sum(_)
                  Sum(S) == IF S = {} THEN 0
                            ELSE LET i == CHOOSE x \in S : TRUE
                                 IN  Len(log[i]) + Sum(S \ {i})
              IN  Sum(ListIds)

\* the (d, t) a client hands to _append_data: a single-snapshot record of
\* either class with its timestamp, None, or a result list itself
AppendArgs ==
    {<<[cls |-> c, id |-> x[1]], x[2]>> :
        c \in {"MLFit", "MLGaussianFit"}, x \in Stamped}
    \cup {<<[cls |-> "NoneType", id |-> 0], 1>>}
    \cup {<<[cls |-> lists[j].cls, id |-> j], 1>> : j \in Alive}

\* cls(*args)
Construct(cls, args) ==
    /\ LET i == IF Free = {} THEN CHOOSE x \in ListIds : TRUE
                ELSE CHOOSE x \in Free : \A y \in Free : x <= y
           out == IF cls = "MLFitList" THEN MLFitList_init(lists, heap, i, args)
                  ELSE MLGaussianFitList_init(lists, heap, i, args)
       IN  /\ out.exc = "" => Free # {}
           /\ lists' = out.lists
           /\ heap' = out.heap
           /\ ret' = Called(IF out.exc = "" THEN Return("init", i, <<>>)
                            ELSE Raise("init", 0, out.exc),
                            <<cls, ArgSpan(args)[1], ArgSpan(args)[2]>>)
           /\ UNCHANGED <<log, mlhVars, gaussVars, orchVars>>

\* lists[i]._append_data(d, t)
AppendData(i, d, t) ==
    /\ i \in Alive
    /\ LET out == IF lists[i].cls = "MLFitList"
                  THEN MLFitList_append_data(lists, heap, i, d, t)
                  ELSE MLGaussianFitList_append_data(lists, heap, i, d, t)
       IN  /\ out.exc = "" => NumAppends < MaxAppends
           /\ heap' = out.heap
           /\ log' = IF out.exc = "" THEN [log EXCEPT ![i] = Append(@, <<d, t>>)]
                     ELSE log
           /\ ret' = Called(IF out.exc = "" THEN Return("append", i, <<>>)
                            ELSE Raise("append", i, out.exc),
                            <<d.cls>>)
           /\ UNCHANGED <<lists, mlhVars, gaussVars, orchVars>>

\* lists[i][key]: reads only, so its outcome is a function of the state
GetItem(i, key) ==
    IF lists[i].cls = "MLFitList"
    THEN MLFitList_getitem(lists, heap, i, key)
    ELSE MLGaussianFitList_getitem(lists, heap, i, key)

\* len(lists[i]): reads only
LenOf(i) ==
    IF lists[i].cls = "MLFitList"
    THEN MLFitList_len(lists, heap, i)
    ELSE MLGaussianFitList_len(lists, heap, i)

Keys == (0 - 1)..(MaxAppends + MaxInitLen)

Next ==
    \/ \E cls \in ListClasses : \E args \in ArgTuples(cls) : Construct(cls, args)
    \/ \E i \in ListIds : \E a \in AppendArgs : AppendData(i, a[1], a[2])

Spec == Init /\ [][Next]_vars

----------------------------------------------------------------------------
(* A call of fit_maximum_lh on an array of samples *)

Samples == 0..MaxSample

InitMLH ==
    /\ NoLists
    /\ NoGauss
    /\ NoCall
    /\ sig \in SeqsUpTo(Samples, MaxSamples)
    /\ fit = NoRet

\* fit = fit_maximum_lh(np.array(sig))
FitMaximumLh ==
    /\ fit.op = "none"
    /\ fit' = Return("fit_maximum_lh", 0, fit_maximum_lh([k \in 1..Len(sig) |-> FromInt(sig[k])]))
    /\ UNCHANGED <<listVars, sig, gaussVars, orchVars>>

NextMLH == FitMaximumLh

SpecMLH == InitMLH /\ [][NextMLH]_vars

----------------------------------------------------------------------------
(* A call of fit_gaussian_tt or fit_gaussian_bump_tt on a snapshot *)

\* the arrays of the given shape over Rates
Matrices(rows, cols) ==
    {[r \in 1..rows |-> [c \in 1..cols |-> f[<<r, c>>]]] :
        f \in [(1..rows) \X (1..cols) -> Rates]}

Snapshots == UNION {Matrices(r, c) : r \in 1..MaxDim, c \in 1..MaxDim}

\* an initial guess a caller of fit_gaussian_tt passes
Guesses ==
    {SymmetricGaussianParams(FromInt(1), FromInt(0), FromInt(0), FromInt(1), None)}

InitGauss ==
    /\ NoLists
    /\ NoFit
    /\ NoCall
    /\ gsig \in Snapshots
    /\ gfit = NoRet

\* what the caller passed and what the solver handed back
SolverEcho(i, out) ==
    [x0 |-> i, raises |-> out.raises, xest |-> out.xest, ier |-> out.ier,
     diff |-> out.diff]

\* gfit = fit_gaussian_tt(gsig, i)
FitGaussianTT(i, out) ==
    /\ gfit.op = "none"
    /\ gfit' = Called(fit_gaussian_tt(gsig, i, out), SolverEcho(i, out))
    /\ UNCHANGED <<listVars, mlhVars, gsig, orchVars>>

\* gfit = fit_gaussian_bump_tt(gsig)
FitGaussianBumpTT(out) ==
    /\ gfit.op = "none"
    /\ gfit' = [Called(fit_gaussian_bump_tt(gsig, out), SolverEcho(BumpInit(gsig), out))
                  EXCEPT !.op = "fit_gaussian_bump_tt"]
    /\ UNCHANGED <<listVars, mlhVars, gsig, orchVars>>

Cells(a) == Shape(a)[1] * Shape(a)[2]

NextGauss ==
    \/ \E i \in Guesses : \E out \in leastsq(Cells(gsig), <<i.A, i.mu_x, i.mu_y, i.sigma>>) :
         FitGaussianTT(i, out)
    \/ \E out \in leastsq(Cells(gsig), <<BumpInit(gsig).A, BumpInit(gsig).mu_x,
                                       BumpInit(gsig).mu_y, BumpInit(gsig).sigma>>) :
         FitGaussianBumpTT(out)

SpecGauss == InitGauss /\ [][NextGauss]_vars

\* the solver outcomes followed when only fit_gaussian_bump_tt is called: an
\* error, or any amplitude, flag and residual with the centre at the origin
BumpSolver(m, x0) ==
    {o \in leastsq(m, x0) :
        o.raises \/ (o.xest[2] = FromInt(0) /\ o.xest[3] = FromInt(0))}

NextBump ==
    \E out \in BumpSolver(Cells(gsig), <<BumpInit(gsig).A, BumpInit(gsig).mu_x,
                                        BumpInit(gsig).mu_y, BumpInit(gsig).sigma>>) :
        FitGaussianBumpTT(out)

SpecBump == InitGauss /\ [][NextBump]_vars

----------------------------------------------------------------------------
(* SingleBumpPopulation: bump_position and uniform_fit *)

\* the list class and the fitter each method hands to _perform_fit
ListClassOf(method) ==
    IF method = "bump_position" THEN "MLGaussianFitList" ELSE "MLFitList"

\* the snapshots a time series is made of: flat ones and ones with a peak,
\* on a sheet of 2 x 2 and on one too small for the four fit parameters
OrchSnapshots ==
    {<<<<0, 0>>, <<0, 0>>>>, <<<<0, 1>>, <<1, 0>>>>, <<<<1, 1>>>>, <<<<0, 1>>>>}

\* what slidingFiringRate may return: N snapshots of one shape and their
\* window-end times, dt apart
SlidingFiringRates ==
    {[F |-> f, Ft |-> [k \in 1..Len(f) |-> k * dt]] :
        dt \in {1, 2},
        f \in {g \in SeqsUpTo(OrchSnapshots, MaxWindows) :
                 \A k \in 1..Len(g) : Shape(g[k]) = Shape(g[1])}}

\* the solver outcomes followed through a whole time series
OrchSolver(m, x0) ==
    {o \in leastsq(m, x0) :
        o.raises \/ (o.xest[1] = FromInt(1) /\ o.xest[2] = FromInt(0)
                     /\ o.xest[3] = FromInt(0) /\ o.ier \in {1, 5})}

\* fit_callable(F[:, :, tIdx]): the outcomes of the fitter on a snapshot
FitCallable(method, sg) ==
    IF method = "uniform_fit"
    THEN {Return("fit_maximum_lh", 0,
                 fit_maximum_lh([k \in 1..Cells(sg) |-> FromInt(Ravel(sg)[k])]))}
    ELSE {fit_gaussian_bump_tt(sg, out) :
            out \in OrchSolver(Cells(sg), <<BumpInit(sg).A, BumpInit(sg).mu_x,
                                           BumpInit(sg).mu_y, BumpInit(sg).sigma>>)}

\* np.sum(err2)
NpSum(e) == Scalar(RSum(e[2]))

\* (mutant) the test on full_err is inverted
Collapse_inverted(full_err, fit_params) ==
    IF full_err THEN [fit_params EXCEPT !.err2 = NpSum(@)] ELSE fit_params

\* "if not full_err: fit_params.err2 = np.sum(fit_params.err2)"
Collapse(full_err, fit_params) ==
    IF ~full_err THEN [fit_params EXCEPT !.err2 = NpSum(@)] ELSE fit_params

\* (mutant) the loop starts over at the window after the next
NextWindow_skipping(tIdx) == tIdx + 2

\* "for tIdx in xrange(len(Ft))": the index after tIdx
NextWindow(tIdx) == tIdx + 1

\* (mutant) the error of a window is swallowed and the loop goes on
Propagate_swallowed(o, exc) == [o EXCEPT !.tIdx = NextWindow(@)]

\* an exception raised inside the loop leaves _perform_fit and its caller
Propagate(o, exc) == [o EXCEPT !.pc = "raised", !.exc = exc, !.result = 0]

\* bump_position(...) / uniform_fit(...) up to the loop of _perform_fit:
\* F, Ft = self.slidingFiringRate(...); res = list_cls()
PerformFit(method, full_err, sfr) ==
    /\ orch.pc = "idle"
    /\ LET cls == ListClassOf(method)
           noargs == [k \in 1..Len(Fields(cls)) |-> ArgNone]
           out == IF cls = "MLFitList" THEN MLFitList_init(lists, heap, 1, noargs)
                  ELSE MLGaussianFitList_init(lists, heap, 1, noargs)
       IN  /\ lists' = out.lists
           /\ heap' = out.heap
           /\ orch' = [orch EXCEPT !.pc = "loop", !.method = method,
                                   !.full_err = full_err, !.F = sfr.F,
                                   !.Ft = sfr.Ft, !.tIdx = 0]
    /\ UNCHANGED <<log, ret, recs, mlhVars, gaussVars>>

\* one pass of the loop body: fit the window, collapse err2, append
LoopBody(fitted) ==
    /\ orch.pc = "loop"
    /\ orch.tIdx < Len(orch.Ft)
    /\ LET tIdx == orch.tIdx
           o1 == [orch EXCEPT !.calls = Append(@, tIdx)]
       IN  IF fitted.exc # ""
           THEN /\ orch' = Propagate([o1 EXCEPT !.failed = Append(@, tIdx)], fitted.exc)
                /\ UNCHANGED <<listVars, recs>>
           ELSE LET fit_params == Collapse(orch.full_err, fitted.val)
                    d == [cls |-> RecordClass(lists[1].cls), id |-> Len(recs) + 1]
                    t == orch.Ft[tIdx + 1]
                    out == IF lists[1].cls = "MLFitList"
                           THEN MLFitList_append_data(lists, heap, 1, d, t)
                           ELSE MLGaussianFitList_append_data(lists, heap, 1, d, t)
                    o2 == [o1 EXCEPT !.outs = Append(@, fitted.val)]
                IN  /\ recs' = Append(recs, fit_params)
                    /\ heap' = out.heap
                    /\ log' = IF out.exc = "" THEN [log EXCEPT ![1] = Append(@, <<d, t>>)]
                              ELSE log
                    /\ orch' = IF out.exc # "" THEN Propagate(o2, out.exc)
                               ELSE [o2 EXCEPT !.tIdx = NextWindow(@)]
                    /\ UNCHANGED <<lists, ret>>
    /\ UNCHANGED <<mlhVars, gaussVars>>

\* "return res" once the loop has run out of windows
ReturnRes ==
    /\ orch.pc = "loop"
    /\ orch.tIdx >= Len(orch.Ft)
    /\ orch' = [orch EXCEPT !.pc = "returned", !.result = 1]
    /\ UNCHANGED <<listVars, recs, mlhVars, gaussVars>>

\* the steps of a call under way: the call is synchronous, it runs on
Running ==
    \/ /\ orch.pc = "loop"
       /\ orch.tIdx < Len(orch.Ft)
       /\ \E fitted \in FitCallable(orch.method, orch.F[orch.tIdx + 1]) :
             LoopBody(fitted)
    \/ ReturnRes

NextOrch ==
    \/ \E method \in {"bump_position", "uniform_fit"} : \E full_err \in BOOLEAN :
         \E sfr \in SlidingFiringRates : PerformFit(method, full_err, sfr)
    \/ Running

InitOrch == Init

SpecOrch == InitOrch /\ [][NextOrch]_vars /\ WF_vars(Running)

----------------------------------------------------------------------------
(* Properties of the containers *)

ArrayLens(i) == {Len(Deref(heap, lists[i].ref[k])) : k \in 1..Len(lists[i].ref)}

\* the record and the timestamp of the k-th successful append to list i
Appended(i, k) == log[i][k + 1]

\* a standalone record holding the values of d, attribute by attribute
Standalone(i, d) ==
    LET as == Attrs(RecordClass(lists[i].cls))
    IN  [a \in 1..Len(as) |-> Attr(lists, d, as[a])]

\* C1: a constructor call whose arguments all have the same length n
\* succeeds and len() of the new list is n; a call in which one argument has
\* another length raises (ValueError) and yields no list.
C1_ConstructionLength ==
    ret.op = "init" =>
        IF ret.arg[2] = ret.arg[3]
        THEN /\ ret.exc = ""
             /\ ret.lst \in Alive
             /\ LenOf(ret.lst) = Return("len", ret.lst, <<ret.arg[2]>>)
        ELSE ret.exc = "ValueError" /\ ret.lst = 0

\* C2: after every completed append all backing arrays of a list have the
\* same length, and a list created empty has arrays of length n after n
\* successful appends.
C2_LengthsSynchronised ==
    \A i \in Alive :
        /\ Cardinality(ArrayLens(i)) = 1
        /\ lists[i].supplied = {} => ArrayLens(i) = {Len(log[i])}

\* C3: after appending r_0 .. r_{n-1} with t_0 .. t_{n-1} to an empty list,
\* indexing at k (0 <= k < n) returns a standalone record with the fields of
\* r_k, paired with the single timestamp t_k.
C3_IndexRoundTrip ==
    \A i \in Alive :
        lists[i].supplied = {} =>
            \A k \in 0..(Len(log[i]) - 1) :
                GetItem(i, k) =
                    Return("getitem", i,
                           <<Standalone(i, Appended(i, k)[1]),
                             TimeVal(Appended(i, k)[2])>>)

\* the classes of values that are not records of the list's record class
WrongTypes(cls) ==
    IF cls = "MLFitList" THEN {"MLGaussianFit", "MLGaussianFitList", "NoneType"}
    ELSE {"MLFit", "MLFitList", "NoneType"}

\* C4: an append of a value of the wrong type raises (TypeError) and leaves
\* every backing array of the list, times included, as it was.
C4_TypeMismatchLeavesListUnchanged ==
    [][(ret'.op = "append" /\ ret'.arg[1] \in WrongTypes(lists[ret'.lst].cls))
        => (ret'.exc = "TypeError" /\ heap' = heap /\ lists' = lists)]_vars

\* a wrong-type append to a list that already holds appended records
C4_Witness ==
    /\ ret.op = "append"
    /\ ret.exc = "TypeError"
    /\ ret.arg[1] \in WrongTypes(lists[ret.lst].cls)
    /\ Len(log[ret.lst]) > 0

\* the list object the caller passed for parameter k of list i and still
\* holds, as it is in heap h
CallerArray(h, i, k) == Deref(h, lists[i].ref[k])

\* C13: no step (an append in particular) changes an array the caller
\* supplied to a constructor and still holds; a result list owns its
\* backing arrays exclusively.
C13_ExclusiveOwnership ==
    [][\A i \in Alive : \A k \in lists[i].supplied :
          CallerArray(heap', i, k) = CallerArray(heap, i, k)]_vars

\* the elements held by the backing arrays of list i
Elements(i) ==
    UNION {{Deref(heap, lists[i].ref[k])[j] :
              j \in 1..Len(Deref(heap, lists[i].ref[k]))} :
           k \in 1..Len(lists[i].ref)}

\* C15: an append whose record argument is a result list itself raises
\* (TypeError), and no element of a backing array is a whole component
\* array of a list.
C15_ContainerNotARecord ==
    /\ (ret.op = "append" /\ ret.arg[1] \in ListClasses) => ret.exc = "TypeError"
    /\ \A i \in Alive : \A e \in Elements(i) : e[1] # "ref"

----------------------------------------------------------------------------
(* Properties of fit_maximum_lh *)

RECURSIVE SumInt(_)
SumInt(xs) == IF xs = <<>> THEN 0 ELSE xs[1] + SumInt(Tail(xs))

Squares(xs) == [k \in 1..Len(xs) |-> xs[k] * xs[k]]

\* the fraction x equals p / q (q > 0)
Equals(x, p, q) == IsFinite(x) /\ x[1] * q = p * x[2]

\* C8: fit_maximum_lh raises on a zero-length input and returns no record;
\* on every non-empty input it returns a record without raising.
C8_EmptyInputRaises ==
    fit.op = "fit_maximum_lh" =>
        IF Len(sig) = 0 THEN fit.exc # "" ELSE fit.exc = ""

\* C10: for a non-empty array of n integer samples with sum s and sum of
\* squares q: mu = s / n, sigma2 = (n q - s^2) / n^2 (divisor n),
\* err2[k] = (n sig[k] - s)^2 / n^2, ln_lh is +infinity exactly when all
\* samples are equal and finite otherwise; [1,2,3,4,5] gives mu 3, sigma2 2.
C10_MaximumLhReference ==
    (fit.op = "fit_maximum_lh" /\ Len(sig) > 0) =>
        LET n == Len(sig)
            s == SumInt(sig)
            q == SumInt(Squares(sig))
            r == fit.val
        IN  /\ fit.exc = ""
            /\ Equals(r.mu, s, n)
            /\ Equals(r.sigma2, n * q - s * s, n * n)
            /\ r.err2[1] = "array" /\ Len(r.err2[2]) = n
            /\ \A k \in 1..n :
                 Equals(r.err2[2][k], (n * sig[k] - s) * (n * sig[k] - s), n * n)
            /\ r.ln_lh.kind = (IF \A k \in 1..n : sig[k] = sig[1]
                               THEN "inf" ELSE "finite")
            /\ r.ln_lh.kind = "inf" <=> r.sigma2 = FromInt(0)
            /\ sig = <<1, 2, 3, 4, 5>> => r.mu = FromInt(3) /\ r.sigma2 = FromInt(2)

\* the fit of [1,2,3,4,5] has been computed
C10_Witness ==
    /\ fit.op = "fit_maximum_lh"
    /\ sig = <<1, 2, 3, 4, 5>>
    /\ fit.val.mu = FromInt(3)
    /\ fit.val.ln_lh.kind = "finite"

----------------------------------------------------------------------------
(* Properties of fit_gaussian_tt *)

\* C9: whenever the least-squares solver reports that it found no solution
\* (ier outside 1..4), fit_gaussian_tt and fit_gaussian_bump_tt end with a
\* failure and return no MLGaussianFit built from the solver's parameters.
C9_NonConvergenceSurfaces ==
    (gfit.op \in {"fit_gaussian_tt", "fit_gaussian_bump_tt"}
        /\ gfit.arg.ier \notin 1..4)
    => gfit.exc # ""

\* the solver's value x and the returned v differ by a whole multiple of m
Congruent(x, v, m) ==
    /\ IsFinite(x) /\ IsFinite(v)
    /\ RSub(x, v)[2] = 1
    /\ RSub(x, v)[1] % m = 0

\* 0 <= v < m
Wrapped(v, m) == IsFinite(v) /\ v[1] >= 0 /\ v[1] < m * v[2]

\* C11: the record fit_gaussian_tt returns has 0 <= mu_x < width and
\* 0 <= mu_y < height, each congruent to the solver's value modulo that
\* dimension, and A and sigma are the solver's values.
C11_CenterWrapping ==
    (gfit.op \in {"fit_gaussian_tt", "fit_gaussian_bump_tt"} /\ gfit.exc = "") =>
        LET width == Shape(gsig)[2]
            height == Shape(gsig)[1]
            xest == gfit.arg.xest
            r == gfit.val
        IN  /\ Wrapped(r.mu_x, width) /\ Congruent(xest[2], r.mu_x, width)
            /\ Wrapped(r.mu_y, height) /\ Congruent(xest[3], r.mu_y, height)
            /\ r.A = xest[1]
            /\ r.sigma = xest[4]

\* the solver has returned and every squared residual at its optimum is 0
PerfectFit ==
    /\ gfit.op \in {"fit_gaussian_tt", "fit_gaussian_bump_tt"}
    /\ ~gfit.arg.raises
    /\ gfit.exc = "" =>
         \A k \in 1..Len(gfit.val.err2[2]) : gfit.val.err2[2][k] = FromInt(0)

\* C12: when all squared residuals at the optimum are 0, fit_gaussian_tt
\* does not fail and returns a record whose lh_precision is +infinity and
\* whose ln_lh is +infinity (not NaN).
C12_DegeneratePerfectFit ==
    PerfectFit =>
        /\ gfit.exc = ""
        /\ gfit.val.lh_precision = Inf
        /\ gfit.val.ln_lh.kind = "inf"

\* (r, c) comes before (y, x) in row-major order (indices from 0)
Before(r, c, y, x) == r < y \/ (r = y /\ c < x)

\* the outcome the solver handed to the call recorded in gfit
SolverOutcome ==
    [raises |-> gfit.arg.raises, xest |-> gfit.arg.xest, ier |-> gfit.arg.ier,
     diff |-> gfit.arg.diff]

\* C14: fit_gaussian_bump_tt hands fit_gaussian_tt the snapshot and a guess
\* whose (mu_y, mu_x) is the row-major first position of the global maximum,
\* whose amplitude is that maximum, whose sigma is max(rows, columns) / 4
\* and whose err2 is None, and returns the result of that call.
C14_BumpInitialGuess ==
    gfit.op = "fit_gaussian_bump_tt" =>
        LET rows == Len(gsig)
            cols == Len(gsig[1])
            x0 == gfit.arg.x0
        IN  /\ \E y \in 0..(rows - 1), x \in 0..(cols - 1) :
                 /\ x0.mu_y = FromInt(y) /\ x0.mu_x = FromInt(x)
                 /\ x0.A = FromInt(gsig[y + 1][x + 1])
                 /\ \A r \in 0..(rows - 1), c \in 0..(cols - 1) :
                      /\ gsig[r + 1][c + 1] <= gsig[y + 1][x + 1]
                      /\ Before(r, c, y, x) => gsig[r + 1][c + 1] < gsig[y + 1][x + 1]
            /\ Equals(x0.sigma, IF rows > cols THEN rows ELSE cols, 4)
            /\ x0.err2 = None
            /\ [gfit EXCEPT !.op = "fit_gaussian_tt"]
                 = Called(fit_gaussian_tt(gsig, x0, SolverOutcome), gfit.arg)

\* a snapshot with several maxima, the first of them not in the first cell,
\* has been fitted
C14_Witness ==
    /\ gfit.op = "fit_gaussian_bump_tt"
    /\ gfit.exc = ""
    /\ gsig = <<<<0, 1>>, <<1, 1>>>>
    /\ gfit.arg.x0.mu_x = FromInt(1)
    /\ gfit.arg.x0.mu_y = FromInt(0)

----------------------------------------------------------------------------
(* Properties of bump_position and uniform_fit *)

\* the list object bound to attribute f of the result list res
ResArray(f) == Deref(heap, lists[1].ref[FieldIndex(Fields(lists[1].cls), f)])

\* the value held at position k (from 1) of that array: an attribute of a
\* record object, or a timestamp
Stored(f, k) ==
    LET v == ResArray(f)[k]
    IN  IF v[1] = "val" THEN recs[v[2]][Attrs(RecordClass(lists[1].cls))[v[3]]]
        ELSE v

\* the attributes of a record other than err2
PlainAttrs(cls) == {a \in {Attrs(cls)[j] : j \in 1..Len(Attrs(cls))} : a # "err2"}

Upto(n) == [k \in 1..n |-> k - 1]

\* what the fitter returned for window k (from 1); for uniform_fit it is
\* fit_maximum_lh of that window's snapshot
FittedIs(k, fitted) ==
    /\ k <= Len(orch.outs)
    /\ orch.outs[k] = fitted
    /\ orch.method = "uniform_fit" =>
         fitted = fit_maximum_lh([j \in 1..Cells(orch.F[k]) |->
                                    FromInt(Ravel(orch.F[k])[j])])

C5_Returned ==
    orch.pc = "returned" =>
        LET N == Len(orch.Ft)
            cls == lists[1].cls
        IN  /\ orch.result = 1
            /\ cls = ListClassOf(orch.method)
            /\ orch.calls = Upto(N)
            /\ \A j \in 1..Len(Fields(cls)) : Len(ResArray(Fields(cls)[j])) = N
            /\ \A k \in 1..N :
                 /\ Stored("times", k) = TimeVal(orch.Ft[k])
                 /\ FittedIs(k, orch.outs[k])
                 /\ \A a \in PlainAttrs(RecordClass(cls)) :
                      Stored(a, k) = orch.outs[k][a]

\* C5: when every per-window fit succeeds, bump_position / uniform_fit calls
\* the fitter once per window in increasing index, terminates, and returns a
\* list of N entries in which entry k is the fit of snapshot k and
\* times[k] = Ft[k].
C5_TimeOrderedOrchestration ==
    /\ []C5_Returned
    /\ [](orch.pc = "raised" => orch.failed # <<>>)
    /\ (orch.pc = "loop") ~> (orch.pc \in {"returned", "raised"})

\* a call over two windows has returned its list
C5_Witness ==
    /\ orch.pc = "returned"
    /\ Len(orch.Ft) = 2
    /\ Len(ResArray("times")) = 2
    /\ orch.method = "bump_position"

\* C6: if the fit of window k fails, the call ends with that error, the
\* fitter is invoked for no further window (nor again for k), and no list is
\* returned.
C6_FailFast ==
    orch.failed # <<>> =>
        /\ orch.pc = "raised"
        /\ orch.exc = "TypeError"
        /\ orch.result = 0
        /\ Len(orch.failed) = 1
        /\ orch.calls = Upto(orch.failed[1] + 1)

\* the fit of the second window failed
C6_Witness ==
    /\ orch.failed = <<1>>
    /\ orch.pc = "raised"
    /\ Len(orch.Ft) = 2

\* C7: the err2 entry stored for window k is the fitter's per-cell array when
\* full_err is True and the scalar sum of that array when it is False; the
\* other stored fields are the fitter's in both modes.
C7_FullErr ==
    orch.pc # "idle" =>
        /\ Len(ResArray("err2")) = Len(orch.outs)
        /\ \A k \in 1..Len(ResArray("err2")) :
             LET fitted == orch.outs[k]
             IN  /\ FittedIs(k, fitted)
                 /\ fitted.err2[1] = "array"
                 /\ Len(fitted.err2[2]) = Cells(orch.F[k])
                 /\ Stored("err2", k) =
                      (IF orch.full_err THEN fitted.err2
                       ELSE Scalar(RSum(fitted.err2[2])))
                 /\ \A a \in PlainAttrs(RecordClass(lists[1].cls)) :
                      Stored(a, k) = fitted[a]

\* two windows stored with full_err False, the sums being non-zero
C7_Witness ==
    /\ orch.pc = "returned"
    /\ ~orch.full_err
    /\ Len(ResArray("err2")) = 2
    /\ \A k \in 1..2 : Stored("err2", k)[1] = "scalar"
                       /\ Stored("err2", k) # Scalar(FromInt(0))

====
